---- MODULE Spec2Model ----
(***************************************************************************)
(* A model of denialmanagementapp.py: a Streamlit script that is re-run    *)
(* from its first line on every user interaction.  One action of the model *)
(* is one such re-run, triggered by one interaction (choosing a file in    *)
(* the uploader, changing one sidebar widget, switching page).  The only   *)
(* state that survives a re-run is st.session_state.data and the values of *)
(* the widgets.                                                            *)
(*                                                                         *)
(* A table (pandas DataFrame) is [columns, rows]: the set of header names  *)
(* and the sequence of rows; a row maps the columns whose values the       *)
(* script reads to a value.  The five required columns that no statement   *)
(* of the script reads (ICD10_Code, CPT_Code, Patient_Age, Gender,         *)
(* Hospital_Type) are present in the header only.  An uploaded file is the *)
(* table pd.read_csv returns for it: empty cells are already NaN, and      *)
(* claim_date cells are still text.                                        *)
(***************************************************************************)
EXTENDS Integers, Sequences, FiniteSets, TLC

\* ---------------------------------------------------------------- bounds
\* Longest table (in rows) drawn from the small row families.
MaxRows == 2
\* Most required columns a generated header leaves out.
MaxMissing == 2
\* Most distinct denial reasons in the generated many-reason tables.
MaxReasons == 11

\* ------------------------------------------------------------- constants
\* .head(10) of the Top Denial Reasons page.
TopN == 10

EXPECTED_COLUMNS ==
    << "ICD10_Code", "CPT_Code", "claim_date", "Patient_Age", "Gender", "Region",
       "Provider_Specialty", "Hospital_Type", "Claim_Status", "Claimed_Amount",
       "Approved_Amount", "Denied_amount", "Denial_reason" >>

Range(s) == { s[i] : i \in DOMAIN s }

\* pandas' missing value of a text column, and of a datetime column (NaT).
NaN == "NaN"
NaT == [y |-> 0, m |-> 0, d |-> 0]

\* st.session_state.data = None; st.file_uploader returning None.
None == [columns |-> {"None"}, rows |-> << >>]

\* ------------------------------------------------------------- calendar
IsLeap(y) == (y % 4 = 0 /\ y % 100 # 0) \/ y % 400 = 0

DaysInMonth(y, m) ==
    IF m = 2 THEN (IF IsLeap(y) THEN 29 ELSE 28)
    ELSE IF m \in {4, 6, 9, 11} THEN 30 ELSE 31

\* Timestamps compare on the time line; a comparison with NaT is False.
TsLE(a, b) ==
    /\ a # NaT
    /\ b # NaT
    /\ \/ a.y < b.y
       \/ a.y = b.y /\ a.m < b.m
       \/ a.y = b.y /\ a.m = b.m /\ a.d <= b.d

\* pd.to_datetime(text, errors="coerce") of one cell.  The text of a cell
\* is the tuple of the numbers of its "Y-M-D" form; << >> is an empty cell
\* and a tuple of another length is text that is no date.  Whatever does
\* not denote a day of the calendar (within the range of Timestamp)
\* becomes NaT.
to_datetime(text) ==
    IF /\ Len(text) = 3
       /\ text[1] \in 1678..2261
       /\ text[2] \in 1..12
       /\ text[3] \in 1..DaysInMonth(text[1], text[2])
    THEN [y |-> text[1], m |-> text[2], d |-> text[3]]
    ELSE NaT

\* --------------------------------------------------------------- load_data
\* As missing_cols, but naming every expected column once one is missing (the
\* list the st.info message of line 136 shows).
missing_cols_all(df) ==
    IF \A col \in Range(EXPECTED_COLUMNS) : col \in df.columns
    THEN << >> ELSE EXPECTED_COLUMNS

\* missing_cols = [col for col in EXPECTED_COLUMNS if col not in df.columns]
missing_cols(df) == SelectSeq(EXPECTED_COLUMNS, LAMBDA col : col \notin df.columns)

\* df["claim_date"] = pd.to_datetime(df["claim_date"], errors="coerce")
normalize_dates(df) ==
    [df EXCEPT !.rows =
        [i \in DOMAIN df.rows |->
            [df.rows[i] EXCEPT !["claim_date"] = to_datetime(@)]]]

\* load_data: raises ValueError naming missing_cols, or returns the table
\* with claim_date converted.  (st.cache_data only memoises the result for
\* an identical file and hands out a copy of it; a raise is not cached.)
load_data(uploaded) ==
    IF missing_cols(uploaded) # << >>
    THEN [raised |-> TRUE, missing |-> missing_cols(uploaded), df |-> None]
    ELSE [raised |-> FALSE, missing |-> << >>, df |-> normalize_dates(uploaded)]

\* ------------------------------------------------------- helper operators
RECURSIVE SumColDated(_, _)
\* As SumCol, but over the rows with a valid claim_date only.
SumColDated(rows, col) ==
    IF rows = << >> THEN 0
    ELSE (IF rows[1].claim_date # NaT THEN rows[1][col] ELSE 0)
         + SumColDated(Tail(rows), col)

RECURSIVE SumCol(_, _)
\* Series.sum() of one numeric column.
SumCol(rows, col) ==
    IF rows = << >> THEN 0 ELSE rows[1][col] + SumCol(Tail(rows), col)

\* Text labels in ascending order (Python's string order), which is the
\* order groupby(..., sort=True) gives its group keys.
LabelOrder ==
    << "Authorization", "Bundling", "Coding", "Coverage", "Duplicate",
       "Eligibility", "Expired", "Incomplete", "Late filing", "Missing info",
       "Necessity", "Network", "North", "South", "Timely", "Unknown" >>

\* The labels of S in ascending order.
SortedLabels(S) == SelectSeq(LabelOrder, LAMBDA s : s \in S)

RECURSIVE Perms(_)
Perms(S) ==
    IF S = {} THEN { << >> }
    ELSE UNION { { << x >> \o p : p \in Perms(S \ {x}) } : x \in S }

\* df[col].dropna().unique().tolist(), as the set of the options offered.
options(df, col) == { df.rows[i][col] : i \in DOMAIN df.rows } \ {NaN}

ValidDates(rows) == { rows[i].claim_date : i \in DOMAIN rows } \ {NaT}

\* df["claim_date"].min() and .max(): NaT values are skipped, and the
\* result is NaT when there is no other value.
min_date(df) ==
    IF ValidDates(df.rows) = {} THEN NaT
    ELSE CHOOSE a \in ValidDates(df.rows) : \A b \in ValidDates(df.rows) : TsLE(a, b)

max_date(df) ==
    IF ValidDates(df.rows) = {} THEN NaT
    ELSE CHOOSE a \in ValidDates(df.rows) : \A b \in ValidDates(df.rows) : TsLE(b, a)

\* ---------------------------------------------------------- filter section
\* Series.isin(selected): NaN is in no selection offered by the widget.
isin(value, selected) == value \in selected

\* As between, but with the right end excluded (inclusive="left").
between_left(value, left, right) ==
    TsLE(left, value) /\ TsLE(value, right) /\ value # right

\* Series.between(left, right): (s >= left) & (s <= right), both inclusive;
\* every comparison with NaT is False.
between(value, left, right) == TsLE(left, value) /\ TsLE(value, right)

\* if selected_region: filtered_df = filtered_df[filtered_df["Region"].isin(...)]
filter_region(rows, selected_region) ==
    IF selected_region # {}
    THEN SelectSeq(rows, LAMBDA r : isin(r.Region, selected_region))
    ELSE rows

\* if selected_specialty: ...["Provider_Specialty"].isin(selected_specialty)
filter_specialty(rows, selected_specialty) ==
    IF selected_specialty # {}
    THEN SelectSeq(rows, LAMBDA r : isin(r.Provider_Specialty, selected_specialty))
    ELSE rows

\* if selected_date: ...["claim_date"].between(selected_date[0], selected_date[1])
\* Called with a selected_date of two dates, or of none.
filter_date(rows, selected_date) ==
    IF selected_date # << >>
    THEN SelectSeq(rows, LAMBDA r : between(r.claim_date, selected_date[1], selected_date[2]))
    ELSE rows

\* The three filters in the order of the script.
apply_filters(rows, selected_region, selected_specialty, selected_date) ==
    filter_date(filter_specialty(filter_region(rows, selected_region),
                                 selected_specialty),
                selected_date)

\* Boolean indexing makes a new table; with no filter applied filtered_df is
\* still the object df.copy() returned.
any_filter(selected_region, selected_specialty, selected_date) ==
    selected_region # {} \/ selected_specialty # {} \/ selected_date # << >>

\* -------------------------------------------------------------- aggregates
\* filtered_df["Claim_Status"].value_counts().reset_index(): one row per
\* status other than NaN with the number of its rows.  value_counts orders
\* the rows by count; that order is not modelled (a set of rows).
status_chart(rows) ==
    { [Claim_Status |-> s,
       Count |-> Cardinality({ i \in DOMAIN rows : rows[i].Claim_Status = s })] :
      s \in { rows[i].Claim_Status : i \in DOMAIN rows } \ {NaN} }

\* filtered_df.groupby("Region")["Denied_amount"].sum().reset_index():
\* groups in ascending key order, NaN keys dropped.
denied_by_region(rows) ==
    LET keys == SortedLabels({ rows[i].Region : i \in DOMAIN rows } \ {NaN})
    IN  [k \in DOMAIN keys |->
            [Region |-> keys[k],
             Denied_amount |->
                SumCol(SelectSeq(rows, LAMBDA r : r.Region = keys[k]), "Denied_amount")]]

\* Months counted from year 0.
MonthIndex(ts) == ts.y * 12 + ts.m - 1

\* As BinOf, but with bins closed on the left: the last day of a month falls
\* into the bin of the next month.
BinOfClosedLeft(ts) ==
    IF ts.d = DaysInMonth(ts.y, ts.m) THEN MonthIndex(ts) + 1 ELSE MonthIndex(ts)

\* The bin of pd.Grouper(freq="M") a timestamp falls into: the bin of its
\* calendar month (bins are closed on the right, at the end of the month's
\* last day).
BinOf(ts) == MonthIndex(ts)

\* As BinLabel, but for the month-start frequency ("MS").
BinLabelFirstDay(mi) == [y |-> mi \div 12, m |-> (mi % 12) + 1, d |-> 1]

\* The label of a bin of pd.Grouper(freq="M"): "M" is the month-END
\* frequency, so the label is the last day of the month.
BinLabel(mi) ==
    [y |-> mi \div 12, m |-> (mi % 12) + 1,
     d |-> DaysInMonth(mi \div 12, (mi % 12) + 1)]

\* filtered_df.groupby(pd.Grouper(key="claim_date", freq="M"))["Denied_amount"]
\*   .sum().reset_index().sort_values("claim_date")
\* for rows with at least one valid date: one bin per calendar month from
\* the month of the earliest date to the month of the latest, months with no
\* row included (their sum is 0); rows whose claim_date is NaT are in no bin.
trend(rows) ==
    IF ValidDates(rows) = {} THEN << >>
    ELSE LET mis   == { BinOf(t) : t \in ValidDates(rows) }
             first == CHOOSE a \in mis : \A b \in mis : a <= b
             last  == CHOOSE a \in mis : \A b \in mis : b <= a
         IN  [k \in 1..(last - first + 1) |->
                [claim_date |-> BinLabel(first + k - 1),
                 Denied_amount |->
                    SumCol(SelectSeq(rows, LAMBDA r :
                                /\ r.claim_date # NaT
                                /\ BinOf(r.claim_date) = first + k - 1),
                           "Denied_amount")]]

\* As fillna, but with the fill lost: it went into a temporary column object
\* and not into filtered_df.
fillna_lost(rows) == rows

\* filtered_df["Denial_reason"].fillna("Unknown", inplace=True)
fillna(rows) ==
    [i \in DOMAIN rows |->
        [rows[i] EXCEPT !["Denial_reason"] = IF @ = NaN THEN "Unknown" ELSE @]]

\* filtered_df.groupby("Denial_reason")["Denied_amount"].sum().reset_index():
\* groups in ascending key order.
reason_groups(rows) ==
    LET keys == SortedLabels({ rows[i].Denial_reason : i \in DOMAIN rows } \ {NaN})
    IN  [k \in DOMAIN keys |->
            [Denial_reason |-> keys[k],
             Denied_amount |->
                SumCol(SelectSeq(rows, LAMBDA r : r.Denial_reason = keys[k]),
                       "Denied_amount")]]

RECURSIVE sort_values_desc(_)
\* .sort_values("Denied_amount", ascending=False) with the default
\* kind="quicksort", which is not a stable sort: the result is descending in
\* Denied_amount, and rows with equal amounts come in an order the sort
\* implementation picks.  The operator gives every order it may produce.
sort_values_desc(groups) ==
    IF groups = {} THEN { << >> }
    ELSE LET top  == CHOOSE a \in { g.Denied_amount : g \in groups } :
                        \A g \in groups : g.Denied_amount <= a
             tied == { g \in groups : g.Denied_amount = top }
         IN  { p \o rest : p \in Perms(tied), rest \in sort_values_desc(groups \ tied) }

\* .head(n)
head(s, n) == SubSeq(s, 1, IF Len(s) < n THEN Len(s) ELSE n)

\* denial_summary: every table the expression of lines 250-256 may produce.
denial_summary(rows) ==
    { head(s, TopN) : s \in sort_values_desc(Range(reason_groups(rows))) }

\* download_button(df, filename): the two payloads built from df, each
\* recorded as the file name offered and the table serialised.
download_button(rows, filename, xlsx) ==
    << [file_name |-> filename, table |-> rows],
       [file_name |-> xlsx, table |-> rows] >>

\* ----------------------------------------------------------------- pages
\* What one run of the script shows: the messages (st.success, st.error,
\* st.info, st.warning) in order, the columns named by the error message,
\* the sidebar widgets rendered, the sections of the script entered (by
\* their heading comments) in order, the exception that ended the run
\* ("none" when it reached the end of the script), and the values computed.
BlankPage ==
    [messages |-> << >>, error_columns |-> << >>, records |-> 0,
     widgets |-> {}, stages |-> << >>, exception |-> "none",
     filtered_df |-> << >>,
     total_claims |-> 0, total_claimed |-> 0, total_approved |-> 0,
     total_denied |-> 0,
     status_chart |-> {}, denied_by_region |-> << >>, trend |-> << >>,
     denial_summary |-> << >>, downloads |-> << >>]

\* Lines 140-163 (Home) and 223-246 (Top Denial Reasons), the same code: the
\* sidebar widgets and the filters.  The result is the set of pages the
\* section may leave: st.sidebar.date_input is given [min_date, max_date],
\* which is [NaT, NaT] for a table with no valid date, and the widget either
\* rejects it (the run ends there) or goes on; a selected_date of one date
\* (a range whose end is not picked yet) makes selected_date[1] raise
\* IndexError.
filter_section(start, df, selected_region, selected_specialty, selected_date) ==
    LET header == [start EXCEPT !.stages = Append(@, "FILTERS"),
                                !.widgets = {"region", "specialty"}]
        dated  == [header EXCEPT !.widgets = @ \cup {"date"}]
    IN  (IF min_date(df) = NaT
         THEN { [header EXCEPT !.exception = "ValueError"] }
         ELSE {})
        \cup
        (IF Len(selected_date) = 1
         THEN { [dated EXCEPT !.exception = "IndexError"] }
         ELSE { [dated EXCEPT !.filtered_df =
                    apply_filters(df.rows, selected_region, selected_specialty,
                                  selected_date)] })

\* As grouper_may_raise, but for a table with no row as well.
grouper_may_raise_empty(rows) == ValidDates(rows) = {}

\* Whether grouping by pd.Grouper(key="claim_date", freq="M") may raise: the
\* rows are binned between the earliest and the latest claim_date, which are
\* NaT when there are rows and none of them has a valid date (a table with
\* no row is answered with no bin before the edges are computed).
grouper_may_raise(rows) == rows # << >> /\ ValidDates(rows) = {}

\* Lines 165-211: the KPIs, the three charts and the download section of the
\* Home page, for a page the filter section completed.  Grouping by
\* pd.Grouper on rows none of which has a valid date either raises or yields
\* no bin.
home_dashboard(p) ==
    LET rows   == p.filtered_df
        kpis   == [p EXCEPT !.stages = @ \o << "KPIs", "CHARTS" >>,
                            !.total_claims = Len(rows),
                            !.total_claimed = SumCol(rows, "Claimed_Amount"),
                            !.total_approved = SumCol(rows, "Approved_Amount"),
                            !.total_denied = SumCol(rows, "Denied_amount"),
                            !.status_chart = status_chart(rows),
                            !.denied_by_region = denied_by_region(rows)]
    IN  (IF grouper_may_raise(rows)
         THEN { [kpis EXCEPT !.stages = Append(@, "TREND"),
                             !.exception = "ValueError"] }
         ELSE {})
        \cup
        { [kpis EXCEPT !.stages = @ \o << "TREND", "DOWNLOAD" >>,
                       !.trend = trend(rows),
                       !.downloads = download_button(rows, "filtered_claims.csv",
                                                     "filtered_claims.xlsx")] }

\* As session_after_load, but with the table dropped when load_data raises.
session_cleared_on_error(data, r) == IF r.raised THEN None ELSE r.df

\* Lines 129-137: st.session_state.data after the try statement around
\* load_data, whose result is r.  The assignment of line 131 is skipped when
\* load_data raises.
session_after_load(data, r) == IF r.raised THEN data ELSE r.df

\* Lines 128-211: the Home page below the uploader.  The result is the set
\* of [data, page]: the new st.session_state.data and the page shown.
\* When load_data raises, the except branch reports it and the script goes
\* on to line 140; df was never bound in this run, so line 142 raises
\* NameError.
HomePage(uploaded_file, selected_region, selected_specialty, selected_date, data) ==
    IF uploaded_file = None
    THEN { [data |-> data, page |-> BlankPage] }
    ELSE LET r == load_data(uploaded_file)
             held == session_after_load(data, r)
         IN  IF r.raised
             THEN { [data |-> held,
                     page |-> [BlankPage EXCEPT !.messages = << "error", "info" >>,
                                                !.error_columns = r.missing,
                                                !.stages = << "FILTERS" >>,
                                                !.exception = "NameError"]] }
             ELSE LET loaded == [BlankPage EXCEPT !.messages = << "success" >>,
                                                  !.records = Len(r.df.rows)]
                      after  == filter_section(loaded, r.df, selected_region,
                                               selected_specialty, selected_date)
                  IN  { [data |-> held, page |-> q] :
                        q \in UNION { IF p.exception = "none"
                                      THEN home_dashboard(p) ELSE {p} : p \in after } }

\* As df_copy, but without the copy (filtered_df = df).
df_not_copied(object) == object

\* filtered_df = df.copy(): the object the name filtered_df is bound to,
\* "session" being the table held in st.session_state.data.
df_copy(object) == "copy"

\* Lines 248-274 of the Top Denial Reasons page for a page the filter section
\* completed: [data, page] as for HomePage.  fillna(inplace=True) writes into
\* the object filtered_df is bound to (pandas 2, which freq="M" of the Home
\* page requires, writes through the column): a new table if a filter was
\* applied, else what df.copy() returned.
top_reasons(p, data, filtered_object) ==
    LET rows == fillna(p.filtered_df)
    IN  { [data |-> IF filtered_object = "session"
                    THEN [data EXCEPT !.rows = fillna(@)] ELSE data,
           page |-> [p EXCEPT !.stages = @ \o << "TOP DENIAL REASONS", "DOWNLOAD" >>,
                              !.filtered_df = rows,
                              !.denial_summary = s,
                              !.downloads = download_button(rows, "filtered_denials.csv",
                                                            "filtered_denials.xlsx")]] :
          s \in denial_summary(rows) }

\* Lines 214-274: the Top Denial Reasons page.
TopPage(selected_region, selected_specialty, selected_date, data) ==
    IF data = None
    THEN { [data |-> data, page |-> [BlankPage EXCEPT !.messages = << "warning" >>]] }
    ELSE LET after  == filter_section(BlankPage, data, selected_region,
                                      selected_specialty, selected_date)
             object == IF any_filter(selected_region, selected_specialty, selected_date)
                       THEN "new" ELSE df_copy("session")
         IN  UNION { IF p.exception = "none"
                     THEN top_reasons(p, data, object)
                     ELSE { [data |-> data, page |-> p] } : p \in after }

\* One run of the script.
Script(menu, uploaded_file, selected_region, selected_specialty, selected_date, data) ==
    IF menu = "Home"
    THEN HomePage(uploaded_file, selected_region, selected_specialty, selected_date, data)
    ELSE TopPage(selected_region, selected_specialty, selected_date, data)

\* ------------------------------------------------------------ the inputs
Row(region, specialty, date, status, claimed, approved, denied, reason) ==
    [Region |-> region, Provider_Specialty |-> specialty, claim_date |-> date,
     Claim_Status |-> status, Claimed_Amount |-> claimed,
     Approved_Amount |-> approved, Denied_amount |-> denied,
     Denial_reason |-> reason]

\* A file with the given header: each row keeps the cells of the columns
\* the header has.
File(columns, rows) ==
    [columns |-> columns,
     rows |-> [i \in DOMAIN rows |->
                 [c \in (DOMAIN rows[i]) \cap columns |-> rows[i][c]]]]

Required == Range(EXPECTED_COLUMNS)

\* The two rows of the sample file the Home page offers for download, as
\* pd.read_csv reads them back (the empty Denial_reason is NaN).
sample_data ==
    << Row("North", "Cardiology", << 2025, 1, 1 >>, "Approved", 1000, 1000, 0, NaN),
       Row("South", "Orthopedics", << 2025, 2, 15 >>, "Denied", 2000, 0, 2000,
           "Missing info") >>

\* Row families: each varies the cells one part of the script depends on.
\* Regions and specialties, with and without a date.
FilterRows ==
    { Row(rs[1], rs[2], d, "Denied", 2000, 500, 1500, "Coding") :
        rs \in { << "North", "Cardiology" >>, << "South", "Cardiology" >>,
                 << "South", "Orthopedics" >> },
        d \in { << 2025, 1, 31 >>, << >> } }

\* Date texts: days in three months of two years, a day that is not in the
\* calendar, an empty cell and text that is no date.  Each has an amount of
\* its own, so that a sum tells which rows are in it.
TrendRows ==
    { Row("North", "Cardiology", da[1], "Denied", 5000, 5000 - da[2], da[2], "Coding") :
        da \in { << << 2024, 12, 31 >>, 100 >>, << << 2025, 1, 1 >>, 200 >>,
                 << << 2025, 1, 31 >>, 400 >>, << << 2025, 3, 15 >>, 800 >>,
                 << << 2025, 2, 30 >>, 1600 >>, << << >>, 3200 >> } }

\* Reasons, missing and not, with equal and different amounts.
ReasonRows ==
    { Row("North", "Cardiology", << 2025, 1, 31 >>, "Denied", 2500, 2500 - a, a, reason) :
        reason \in {NaN, "Coding", "Missing info"}, a \in {1000, 2000} }

\* Statuses and regions, missing and not, with and without a date.
StatusRows ==
    { Row(r, "Cardiology", sd[2], sd[1], 1200, 200, 1000, "Coding") :
        r \in {"North", NaN},
        sd \in { << "Denied", << 2025, 1, 31 >> >>, << "Approved", << >> >>,
                 << NaN, << 2025, 1, 31 >> >> } }

\* The tables of at most MaxRows rows over one family.
Tables(family) == UNION { [1..n -> family] : n \in 0..MaxRows }

\* Reasons of the many-reason tables, in an order that is not the ascending
\* one.
ReasonNames ==
    << "Timely", "Network", "Necessity", "Missing info", "Late filing",
       "Incomplete", "Expired", "Eligibility", "Duplicate", "Coverage",
       "Coding", "Bundling", "Authorization" >>

\* A table of n rows with n distinct reasons.  "up": amounts rise from row to
\* row; "down": they fall; "pairs": rows 2k-1 and 2k have the same amount.
ManyReasons(n, shape) ==
    [i \in 1..n |->
        Row("North", "Cardiology", << 2025, 1, 31 >>, "Denied", 20000, 0,
            CASE shape = "up"    -> 1000 * i
              [] shape = "down"  -> 1000 * (n + 1 - i)
              [] shape = "pairs" -> 1000 * ((i + 1) \div 2),
            ReasonNames[i])]

ManyReasonTables ==
    { ManyReasons(n, shape) : n \in (TopN - 1)..MaxReasons,
                              shape \in {"up", "down", "pairs"} }

\* Headers: the required columns less at most MaxMissing of them, with or
\* without a column the script does not know.
Headers ==
    { (Required \ gone) \cup extra :
        gone \in { g \in SUBSET Required : Cardinality(g) <= MaxMissing },
        extra \in { {}, {"Notes"} } }

Files ==
    { File(Required, rows) :
        rows \in Tables(FilterRows) \cup Tables(TrendRows) \cup Tables(ReasonRows)
                 \cup Tables(StatusRows) \cup ManyReasonTables }
    \cup { File(h, sample_data) : h \in Headers }

\* The files of a session that uploads several: three that pass validation
\* and two that do not.
SessionFiles ==
    { File(Required, sample_data),
      File(Required \cup {"Notes"}, << sample_data[2], sample_data[1] >>),
      File(Required, << sample_data[2] >>),
      File(Required \ {"Region"}, sample_data),
      File(Required \ {"claim_date", "Denial_reason"}, << sample_data[1] >>) }

\* The dates the user picks in the date widget.
DateChoices == { to_datetime(<< 2025, 1, 31 >>), to_datetime(<< 2025, 3, 15 >>) }

\* What st.sidebar.date_input returns: no date (cleared), one date (the end
\* of the range not picked yet), or a range start <= end.
DateSelections ==
    { << >> } \cup { << a >> : a \in DateChoices }
    \cup { s \in { << a, b >> : a \in DateChoices, b \in DateChoices } : TsLE(s[1], s[2]) }

\* ---------------------------------------------------------------- state
VARIABLES
    disk,               \* the files the user has to upload
    menu,               \* the page chosen in the sidebar radio
    uploaded_file,      \* what st.file_uploader returns
    selected_region,    \* the values of the three sidebar widgets
    selected_specialty,
    selected_date,
    data,               \* st.session_state.data
    page,               \* what the last run showed
    accepted,           \* history: the last uploaded file load_data returned for
    superseded,         \* history: the file accepted before that one
    request             \* history: the interaction that caused the last run

vars == << disk, menu, uploaded_file, selected_region, selected_specialty,
           selected_date, data, page, accepted, superseded, request >>

Init ==
    /\ disk \in { SessionFiles } \cup { {f} : f \in Files }
    /\ menu = "Home"
    /\ uploaded_file = None
    /\ selected_region = {}
    /\ selected_specialty = {}
    /\ selected_date = << >>
    /\ data = None
    /\ page = BlankPage
    /\ accepted = None
    /\ superseded = None
    /\ request = "start"

\* The table whose columns feed the sidebar widgets of the page shown.
shown(m, file, held) ==
    IF m = "Home"
    THEN (IF file = None \/ load_data(file).raised THEN None ELSE load_data(file).df)
    ELSE held

\* The run of the script an interaction triggers.
Run(m, file, regions, specialties, dates) ==
    \E o \in Script(m, file, regions, specialties, dates, data) :
        /\ data' = o.data
        /\ page' = o.page

\* The widgets of a page shown for the first time hold their defaults: every
\* region, every specialty, [min_date, max_date].
Fresh(m, file) ==
    LET df == shown(m, file, data)
    IN  /\ selected_region' = IF df = None THEN {} ELSE options(df, "Region")
        /\ selected_specialty' = IF df = None THEN {} ELSE options(df, "Provider_Specialty")
        /\ selected_date' = IF df = None THEN << >> ELSE << min_date(df), max_date(df) >>
        /\ Run(m, file, selected_region', selected_specialty', selected_date')

\* The user chooses a file in the uploader of the Home page.
Upload(file) ==
    /\ menu = "Home"
    /\ uploaded_file' = file
    /\ accepted' = IF load_data(file).raised THEN accepted ELSE file
    /\ superseded' = IF load_data(file).raised \/ file = accepted
                     THEN superseded ELSE accepted
    /\ request' = "upload"
    /\ Fresh(menu, file)
    /\ UNCHANGED << disk, menu >>

\* The user removes the file from the uploader.
ClearUpload ==
    /\ menu = "Home"
    /\ uploaded_file # None
    /\ uploaded_file' = None
    /\ request' = "clear"
    /\ Fresh(menu, None)
    /\ UNCHANGED << disk, menu, accepted, superseded >>

\* The user switches page; the uploader of a Home page shown anew is empty.
Navigate(m) ==
    /\ m # menu
    /\ menu' = m
    /\ uploaded_file' = None
    /\ request' = "navigate"
    /\ Fresh(m, None)
    /\ UNCHANGED << disk, accepted, superseded >>

SelectRegions(regions) ==
    /\ "region" \in page.widgets
    /\ regions # selected_region
    /\ selected_region' = regions
    /\ request' = "filter"
    /\ Run(menu, uploaded_file, regions, selected_specialty, selected_date)
    /\ UNCHANGED << disk, menu, uploaded_file, selected_specialty, selected_date, accepted, superseded >>

SelectSpecialties(specialties) ==
    /\ "specialty" \in page.widgets
    /\ specialties # selected_specialty
    /\ selected_specialty' = specialties
    /\ request' = "filter"
    /\ Run(menu, uploaded_file, selected_region, specialties, selected_date)
    /\ UNCHANGED << disk, menu, uploaded_file, selected_region, selected_date, accepted, superseded >>

SelectDate(dates) ==
    /\ "date" \in page.widgets
    /\ dates # selected_date
    /\ selected_date' = dates
    /\ request' = "filter"
    /\ Run(menu, uploaded_file, selected_region, selected_specialty, dates)
    /\ UNCHANGED << disk, menu, uploaded_file, selected_region, selected_specialty, accepted, superseded >>

Next ==
    \/ \E file \in disk : Upload(file)
    \/ ClearUpload
    \/ \E m \in {"Home", "Top Denial Reasons"} : Navigate(m)
    \/ \E regions \in SUBSET options(shown(menu, uploaded_file, data), "Region") :
            SelectRegions(regions)
    \/ \E specialties \in SUBSET options(shown(menu, uploaded_file, data), "Provider_Specialty") :
            SelectSpecialties(specialties)
    \/ \E dates \in DateSelections : SelectDate(dates)

Spec == Init /\ [][Next]_vars

\* ============================================================== properties
\* Operators the properties are stated with; none of them is used by the
\* model of the script above.
RECURSIVE SumOver(_, _, _)
\* The sum of column col over the rows whose index is in I.
SumOver(rows, I, col) ==
    IF I = {} THEN 0
    ELSE LET i == CHOOSE j \in I : TRUE
         IN  rows[i][col] + SumOver(rows, I \ {i}, col)

\* A timestamp as one number, for comparing dates.
DayNumber(ts) == ts.y * 10000 + ts.m * 100 + ts.d

\* The three predicates of a filter selection on one row.
Matches(r, regions, specialties, dates) ==
    /\ regions = {} \/ r.Region \in regions
    /\ specialties = {} \/ r.Provider_Specialty \in specialties
    /\ \/ dates = << >>
       \/ /\ r.claim_date # NaT
          /\ DayNumber(dates[1]) <= DayNumber(r.claim_date)
          /\ DayNumber(r.claim_date) <= DayNumber(dates[2])

\* The rows of the table that match the current selection, in table order.
Matching(rows) ==
    SelectSeq(rows, LAMBDA r : Matches(r, selected_region, selected_specialty,
                                       selected_date))

\* The reason a row counts under on the Top Denial Reasons page.
ReasonOf(r) == IF r.Denial_reason = NaN THEN "Unknown" ELSE r.Denial_reason

WithUnknown(rows) ==
    [i \in DOMAIN rows |-> [rows[i] EXCEPT !["Denial_reason"] = ReasonOf(rows[i])]]

\* Days of the months of a year.
LastDay(y, m) ==
    IF m = 2 /\ y % 4 = 0 /\ (y % 100 # 0 \/ y % 400 = 0) THEN 29
    ELSE << 31, 28, 31, 30, 31, 30, 31, 31, 30, 31, 30, 31 >>[m]

Stages == Range(page.stages)

\* The run shown has passed the filters (lines 155-163 or 238-246).
Filtered == "date" \in page.widgets /\ page.exception # "IndexError"

\* The run shown is a Home run that computed the KPIs and the two charts
\* before the trend.
HomeKPIs == menu = "Home" /\ "KPIs" \in Stages

\* The run shown is a Home run that computed the monthly trend.
HomeTrend == menu = "Home" /\ "DOWNLOAD" \in Stages

\* The run shown is a Top Denial Reasons run that computed denial_summary.
TopDone == menu = "Top Denial Reasons" /\ "TOP DENIAL REASONS" \in Stages

\* C1: load_data succeeds exactly when every required column is in the
\* header (other columns do not matter), and when it raises, the message
\* names each required column that is absent once, and no other column.
C1_SchemaValidation ==
    uploaded_file # None =>
        LET absent == Required \ uploaded_file.columns
        IN  /\ ("success" \in Range(page.messages)) <=> (absent = {})
            /\ ("error" \in Range(page.messages)) <=> (absent # {})
            /\ Range(page.error_columns) = absent
            /\ Len(page.error_columns) = Cardinality(absent)

\* A file with a column the script does not know and two required columns
\* absent was uploaded, and rejected.
C1_Witness ==
    /\ uploaded_file # None
    /\ "Notes" \in uploaded_file.columns
    /\ Cardinality(Required \ uploaded_file.columns) = 2
    /\ "error" \in Range(page.messages)

\* C2: a Home run in which load_data raised enters no later section of the
\* script, computes no filtered table and ends, without a further
\* exception, with the schema error as what it reports.
C2_FailedLoadStopsRequest ==
    "error" \in Range(page.messages) =>
        /\ page.stages = << >>
        /\ page.exception = "none"
        /\ page.widgets = {}

\* C3: st.session_state.data is None while no upload has passed validation,
\* and otherwise is row for row the last file that passed, with claim_date
\* converted and nothing else (no row of an earlier file, no row of a
\* rejected file); the Top Denial Reasons page filters that table.
C3_SessionData ==
    /\ accepted = None => data = None
    /\ accepted # None =>
        /\ Required \subseteq accepted.columns
        /\ data.columns = accepted.columns
        /\ Len(data.rows) = Len(accepted.rows)
        /\ \A i \in DOMAIN accepted.rows :
              /\ data.rows[i].claim_date = to_datetime(accepted.rows[i].claim_date)
              /\ \A c \in (DOMAIN accepted.rows[i]) \ {"claim_date"} :
                    data.rows[i][c] = accepted.rows[i][c]
    /\ menu = "Top Denial Reasons" =>
        /\ data = None <=> "warning" \in Range(page.messages)
        /\ TopDone => page.filtered_df = WithUnknown(Matching(data.rows))

\* A rejected upload came after two accepted ones with different rows: the
\* table held is that of the second.
C3_Witness ==
    /\ request = "upload"
    /\ "error" \in Range(page.messages)
    /\ superseded # None
    /\ accepted # None
    /\ superseded.rows # accepted.rows
    /\ data # None

\* C4: once the filters have run, filtered_df is the rows of the table that
\* satisfy the region, the specialty and the date predicate, in table order
\* (on the Top Denial Reasons page with NaN reasons shown as "Unknown").
C4_FilterConjunction ==
    (Filtered /\ data # None) =>
        page.filtered_df =
            IF menu = "Home" THEN Matching(data.rows)
            ELSE WithUnknown(Matching(data.rows))

\* A region and a date range are selected; a row of the selected region is
\* dropped for its missing date, and a row is kept whose date is the end of
\* the range.
C4_Witness ==
    /\ menu = "Home"
    /\ Filtered
    /\ selected_region # {}
    /\ Len(selected_date) = 2
    /\ selected_date[1] # selected_date[2]
    /\ \E i \in DOMAIN data.rows :
          data.rows[i].claim_date = NaT /\ data.rows[i].Region \in selected_region
    /\ \E i \in DOMAIN page.filtered_df :
          page.filtered_df[i].claim_date = selected_date[2]

\* C5: with no date range selected, the rows counted by the KPIs, the status
\* breakdown and the region breakdown of the Home page are all the rows that
\* pass the region and specialty filters, those with a missing date
\* included.
C5_MissingDatesCounted ==
    (HomeKPIs /\ selected_date = << >>) =>
        LET rows == data.rows
            I == { i \in DOMAIN rows :
                     /\ selected_region = {} \/ rows[i].Region \in selected_region
                     /\ selected_specialty = {}
                        \/ rows[i].Provider_Specialty \in selected_specialty }
        IN  /\ page.total_claims = Cardinality(I)
            /\ page.total_claimed = SumOver(rows, I, "Claimed_Amount")
            /\ page.total_approved = SumOver(rows, I, "Approved_Amount")
            /\ page.total_denied = SumOver(rows, I, "Denied_amount")
            /\ \A s \in { rows[i].Claim_Status : i \in I } \ {NaN} :
                  [Claim_Status |-> s,
                   Count |-> Cardinality({ i \in I : rows[i].Claim_Status = s })]
                     \in page.status_chart
            /\ Cardinality(page.status_chart)
                  = Cardinality({ rows[i].Claim_Status : i \in I } \ {NaN})
            /\ \A g \in { rows[i].Region : i \in I } \ {NaN} :
                  [Region |-> g,
                   Denied_amount |->
                      SumOver(rows, { i \in I : rows[i].Region = g }, "Denied_amount")]
                     \in Range(page.denied_by_region)
            /\ Len(page.denied_by_region)
                  = Cardinality({ rows[i].Region : i \in I } \ {NaN})

\* The Home page shows a row with a missing date beside a row with a valid
\* one: both are in the totals and the breakdowns, one is in the trend.
C5_Witness ==
    /\ HomeTrend
    /\ selected_date = << >>
    /\ \E i, j \in DOMAIN page.filtered_df :
          /\ page.filtered_df[i].claim_date = NaT
          /\ page.filtered_df[i].Claim_Status # NaN
          /\ page.filtered_df[i].Region # NaN
          /\ page.filtered_df[j].claim_date # NaT
    /\ page.total_claims = 2
    /\ Len(page.trend) = 1
    /\ page.trend[1].Denied_amount < page.total_denied

\* The reasons of the rows, NaN counted as "Unknown".
Reasons(rows) == { ReasonOf(rows[i]) : i \in DOMAIN rows }

\* The sum of Denied_amount over the rows of one reason.
ReasonSum(rows, k) ==
    SumOver(rows, { i \in DOMAIN rows : ReasonOf(rows[i]) = k }, "Denied_amount")

RECURSIVE FirstSeen(_)
\* The reasons of the rows in the order of their first row.
FirstSeen(rows) ==
    IF rows = << >> THEN << >>
    ELSE LET before == FirstSeen(SubSeq(rows, 1, Len(rows) - 1))
             k == ReasonOf(rows[Len(rows)])
         IN  IF k \in Range(before) THEN before ELSE Append(before, k)

RECURSIVE StableDescending(_)
\* The groups sorted by amount, largest first, groups with equal amounts
\* left in the order they have in the argument.
StableDescending(groups) ==
    IF groups = << >> THEN << >>
    ELSE LET sorted == StableDescending(SubSeq(groups, 1, Len(groups) - 1))
             g == groups[Len(groups)]
             n == Cardinality({ i \in DOMAIN sorted :
                                  sorted[i].Denied_amount >= g.Denied_amount })
         IN  SubSeq(sorted, 1, n) \o << g >> \o SubSeq(sorted, n + 1, Len(sorted))

\* C6 as stated: denial_summary is the first min(10, k) of the k reason
\* groups sorted by summed Denied_amount descending, groups with equal sums
\* in the order in which their reasons first appear in the filtered rows.
C6_TiesInFirstSeenOrder ==
    TopDone =>
        LET rows   == Matching(data.rows)
            keys   == FirstSeen(rows)
            groups == [i \in DOMAIN keys |->
                         [Denial_reason |-> keys[i],
                          Denied_amount |-> ReasonSum(rows, keys[i])]]
            sorted == StableDescending(groups)
        IN  page.denial_summary
               = SubSeq(sorted, 1, IF Len(sorted) < TopN THEN Len(sorted) ELSE TopN)

\* C6 amended: denial_summary has min(10, k) entries for the k reasons of
\* the filtered rows (NaN counted as "Unknown"); its entries are distinct
\* reasons, each with the sum of its rows' Denied_amount; the amounts never
\* rise from one entry to the next; and no reason left out has a larger sum
\* than a reason listed.  The order of reasons with equal sums is not fixed.
C6_TopReasons ==
    TopDone =>
        LET rows == Matching(data.rows)
            keys == Reasons(rows)
            s    == page.denial_summary
        IN  /\ Len(s) = IF Cardinality(keys) < TopN THEN Cardinality(keys) ELSE TopN
            /\ \A i \in DOMAIN s :
                  /\ s[i].Denial_reason \in keys
                  /\ s[i].Denied_amount = ReasonSum(rows, s[i].Denial_reason)
            /\ \A i, j \in DOMAIN s :
                  /\ i # j => s[i].Denial_reason # s[j].Denial_reason
                  /\ i < j => s[i].Denied_amount >= s[j].Denied_amount
            /\ \A k \in keys \ { s[i].Denial_reason : i \in DOMAIN s } :
                  \A i \in DOMAIN s : ReasonSum(rows, k) <= s[i].Denied_amount

\* The filtered rows have more than ten reasons; denial_summary has exactly
\* ten entries, two neighbours among them with the same sum.
C6_Witness ==
    /\ TopDone
    /\ Cardinality(Reasons(Matching(data.rows))) > TopN
    /\ Len(page.denial_summary) = TopN
    /\ \E i \in 1..(TopN - 1) :
          page.denial_summary[i].Denied_amount = page.denial_summary[i + 1].Denied_amount

\* C7: every row of filtered_df with a valid claim_date is in exactly one
\* month bucket of the trend, the bucket of its month, whose value is the
\* sum of Denied_amount over the rows of that month; so the bucket values add
\* up to the sum over the rows with a valid date, the rows with a missing
\* date adding nothing.
C7_TrendCompleteness ==
    HomeTrend =>
        LET rows  == page.filtered_df
            valid == { i \in DOMAIN rows : rows[i].claim_date # NaT }
            t     == page.trend
            In(i, k) == /\ t[k].claim_date.y = rows[i].claim_date.y
                        /\ t[k].claim_date.m = rows[i].claim_date.m
        IN  /\ \A i \in valid : Cardinality({ k \in DOMAIN t : In(i, k) }) = 1
            /\ \A k \in DOMAIN t :
                  t[k].Denied_amount
                     = SumOver(rows, { i \in valid : In(i, k) }, "Denied_amount")
            /\ SumOver(t, DOMAIN t, "Denied_amount")
                  = SumOver(rows, valid, "Denied_amount")

\* The filtered rows are one with a valid date and one whose date text was
\* no date; the trend holds the amount of the first only.
C7_Witness ==
    /\ HomeTrend
    /\ Len(page.filtered_df) = 2
    /\ \E i, j \in DOMAIN page.filtered_df :
          /\ page.filtered_df[i].claim_date = NaT
          /\ page.filtered_df[j].claim_date # NaT
          /\ Len(page.trend) = 1
          /\ page.trend[1].Denied_amount = page.filtered_df[j].Denied_amount
          /\ page.filtered_df[i].Denied_amount > 0

\* The buckets of the trend are in ascending order of month, and each holds
\* the sum over the rows of the month of its label.
TrendByMonth ==
    LET rows == page.filtered_df
        t    == page.trend
    IN  /\ \A k \in DOMAIN t :
              t[k].Denied_amount
                 = SumOver(rows, { i \in DOMAIN rows :
                                     /\ rows[i].claim_date # NaT
                                     /\ rows[i].claim_date.y = t[k].claim_date.y
                                     /\ rows[i].claim_date.m = t[k].claim_date.m },
                           "Denied_amount")
        /\ \A k \in DOMAIN t : k > 1 =>
              DayNumber(t[k - 1].claim_date) < DayNumber(t[k].claim_date)
              /\ ~ (/\ t[k - 1].claim_date.y = t[k].claim_date.y
                    /\ t[k - 1].claim_date.m = t[k].claim_date.m)

\* C8 as stated: each bucket is labelled by the first day of its month, and
\* the buckets are in ascending order of month.
C8_LabelledByFirstDay ==
    HomeTrend =>
        /\ TrendByMonth
        /\ \A k \in DOMAIN page.trend : page.trend[k].claim_date.d = 1

\* C8 amended: each bucket is labelled by the last day of its month, and the
\* buckets are in ascending order of month.
C8_LabelledByLastDay ==
    HomeTrend =>
        /\ TrendByMonth
        /\ \A k \in DOMAIN page.trend :
              LET l == page.trend[k].claim_date
              IN  l.m \in 1..12 /\ l.d = LastDay(l.y, l.m)

\* Rows in January and in March: three buckets, the one of February without
\* a row.
C8_Witness ==
    /\ HomeTrend
    /\ Len(page.trend) = 3
    /\ page.trend[1].Denied_amount > 0
    /\ page.trend[2].Denied_amount = 0
    /\ page.trend[2].claim_date = [y |-> 2025, m |-> 2, d |-> 28]
    /\ page.trend[3].Denied_amount > 0

\* C9: a run of the script caused by a filter widget, a page switch or the
\* removal of the file leaves st.session_state.data as it was; and a second
\* run with the values the widgets have can show the page shown and leaves
\* the table as it is.
C9_CanonicalUnchanged ==
    /\ [][request' # "upload" => data' = data]_vars
    /\ [] ([data |-> data, page |-> page]
              \in Script(menu, uploaded_file, selected_region, selected_specialty,
                         selected_date, data))

\* The Top Denial Reasons page, no filter selected, shows "Unknown" for a
\* row whose Denial_reason is still NaN in st.session_state.data.
C9_Witness ==
    /\ TopDone
    /\ request = "filter"
    /\ selected_region = {} /\ selected_specialty = {} /\ selected_date = << >>
    /\ \E i \in DOMAIN data.rows :
          /\ data.rows[i].Denial_reason = NaN
          /\ page.filtered_df[i].Denial_reason = "Unknown"
          /\ page.downloads[1].table[i].Denial_reason = "Unknown"

\* C10: when the filters leave no row, the run goes on to its end without an
\* exception; the Home page shows count 0 and the three sums 0 and its
\* status breakdown, region breakdown and trend have no row; the Top Denial
\* Reasons page shows a denial_summary with no row.
C10_EmptySelection ==
    (Filtered /\ data # None /\ Matching(data.rows) = << >>) =>
        /\ page.exception = "none"
        /\ "DOWNLOAD" \in Stages
        /\ menu = "Home" =>
              /\ "KPIs" \in Stages /\ "TREND" \in Stages
              /\ page.total_claims = 0
              /\ page.total_claimed = 0
              /\ page.total_approved = 0
              /\ page.total_denied = 0
              /\ page.status_chart = {}
              /\ page.denied_by_region = << >>
              /\ page.trend = << >>
        /\ menu = "Top Denial Reasons" =>
              /\ "TOP DENIAL REASONS" \in Stages
              /\ page.denial_summary = << >>

\* A table with rows of which the selection matches none, on the Home page.
C10_Witness ==
    /\ menu = "Home"
    /\ Filtered
    /\ data.rows # << >>
    /\ selected_region # {}
    /\ page.filtered_df = << >>
    /\ "DOWNLOAD" \in Stages

====
